---- MODULE Spec2Model ----
(***************************************************************************)
(* Availability / booking engine of the medical appointment scheduler:     *)
(* CalendlyMockAPI (backend/api/calendly_integration.py) with the booking  *)
(* store it keeps in memory and rewrites to the schedule file.             *)
(*                                                                         *)
(* Text is modelled by its fields.  A date string "YYYY-MM-DD" of the year *)
(* 2026 is [mon, mw, day, dw]: the month and day numbers and the number of *)
(* characters each is written with ("2026-1-5" has mw = dw = 1,            *)
(* "2026-01-05" has mw = dw = 2).  A time string "HH:MM" is [hh, hw, mm].  *)
(* Two strings are equal exactly when their records are equal.  A date     *)
(* value is the day of the year 2026 (1 = Thursday 1 January), a time      *)
(* value is [hour, minute].                                                *)
(***************************************************************************)
EXTENDS Integers, Sequences, FiniteSets, TLC

VARIABLES bookings, file, today, result, clients, bookings2

vars == <<bookings, file, today, result, clients, bookings2>>

(***************************************************************************)
(* Bounds of the model.                                                    *)
(***************************************************************************)
\* different bookings that can be made before the store is full
MaxBookings == 2
\* records the store can hold: a cancel adds a record to it
MaxRecords == 3
\* number of distinct values the random suffix of a booking id can take
NumIds == 2
\* calendar days the clock can advance
MaxTicks == 1
\* HTTP requests that can be in progress at once
NumClients == 2

(***************************************************************************)
(* Schedule configuration.                                                 *)
(***************************************************************************)
appointment_durations == [consultation |-> 30, followup |-> 15, physical |-> 45, specialist |-> 60]

DefaultDuration == 30

slot_duration_minutes == 15

DayNames == <<"monday", "tuesday", "wednesday", "thursday", "friday", "saturday", "sunday">>

TimeText(h, m) == [hh |-> h, hw |-> 2, mm |-> m]

\* the schedule document: Monday to Friday 09:00-17:00, no entry for the weekend
WorkDay == [start |-> TimeText(9, 0), end |-> TimeText(17, 0)]

working_hours == [monday |-> WorkDay, tuesday |-> WorkDay, wednesday |-> WorkDay, thursday |-> WorkDay, friday |-> WorkDay]

\* a break one hour later
lunch_break_late == [start |-> TimeText(13, 0), end |-> TimeText(14, 0)]

lunch_break == [start |-> TimeText(12, 0), end |-> TimeText(13, 0)]

(***************************************************************************)
(* datetime: parsing and formatting.                                       *)
(***************************************************************************)
DaysInMonth == <<31, 28, 31, 30, 31, 30, 31, 31, 30, 31, 30, 31>>

RECURSIVE DaysBefore(_)
DaysBefore(mon) == IF mon <= 1 THEN 0 ELSE DaysInMonth[mon - 1] + DaysBefore(mon - 1)

\* strptime(date_str, "%Y-%m-%d") raises ValueError on these
date_parses(date_str) ==
    /\ date_str.mon \in 1..12
    /\ date_str.day \in 1..DaysInMonth[date_str.mon]

strptime_date(date_str) == DaysBefore(date_str.mon) + date_str.day

RECURSIVE MonthOf(_, _)
MonthOf(d, mon) == IF d <= DaysBefore(mon) + DaysInMonth[mon] THEN mon ELSE MonthOf(d, mon + 1)

\* check_date.strftime("%Y-%m-%d"): both fields zero-padded to two characters
strftime_date(d) ==
    LET mon == MonthOf(d, 1)
    IN [mon |-> mon, mw |-> 2, day |-> d - DaysBefore(mon), dw |-> 2]

\* check_date.strftime("%A").lower(); 1 January 2026 is a Thursday
day_name(d) == DayNames[((d + 2) % 7) + 1]

time_parses(time_str) == time_str.hh \in 0..23 /\ time_str.mm \in 0..59

_parse_time(time_str) == [hour |-> time_str.hh, minute |-> time_str.mm]

_time_to_minutes(t) == t.hour * 60 + t.minute

_minutes_to_time(minutes) == [hour |-> minutes \div 60, minute |-> minutes % 60]

\* t.strftime("%H:%M")
strftime_time(t) == [hh |-> t.hour, hw |-> 2, mm |-> t.minute]

(***************************************************************************)
(* Availability engine.                                                    *)
(***************************************************************************)
\* the None that dict.get returns for a weekday without an entry
NoHours == [none |-> TRUE]

HasWorkingHours(name) == name \in DOMAIN working_hours

\* a lookup that falls back to the weekday hours when the weekday has no entry
_get_working_hours_default(check_date) ==
    IF HasWorkingHours(day_name(check_date)) THEN working_hours[day_name(check_date)] ELSE WorkDay

_get_working_hours(check_date) ==
    IF HasWorkingHours(day_name(check_date)) THEN working_hours[day_name(check_date)] ELSE NoHours

_is_working_day(check_date) == HasWorkingHours(day_name(check_date))

duration_of(appointment_type) ==
    IF appointment_type \in DOMAIN appointment_durations
    THEN appointment_durations[appointment_type]
    ELSE DefaultDuration

\* the test "not (slot_end <= b_start or slot_start >= b_end)"
Overlaps(slot_start_mins, slot_end_mins, b_start_mins, b_end_mins) ==
    ~(slot_end_mins <= b_start_mins \/ slot_start_mins >= b_end_mins)

\* a guard that lets cancelled bookings block a slot too
BookingCountsAnyStatus(booking, date_str) == booking.date = date_str

\* the guard of the loop over self.bookings: date_str is check_date.strftime("%Y-%m-%d")
BookingCounts(booking, date_str) ==
    booking.date = date_str /\ booking.status = "confirmed"

WithinHours(wh, slot_start_mins, slot_end_mins) ==
    ~(slot_start_mins < _time_to_minutes(_parse_time(wh.start)) \/ slot_end_mins > _time_to_minutes(_parse_time(wh.end)))

_is_slot_available(bks, check_date, start_time, duration) ==
    IF ~_is_working_day(check_date) THEN FALSE
    ELSE
    LET slot_start_mins == _time_to_minutes(start_time)
        slot_end_mins == slot_start_mins + duration
    IN  /\ WithinHours(_get_working_hours(check_date), slot_start_mins, slot_end_mins)
        /\ ~Overlaps(slot_start_mins, slot_end_mins,
                     _time_to_minutes(_parse_time(lunch_break.start)),
                     _time_to_minutes(_parse_time(lunch_break.end)))
        /\ LET date_str == strftime_date(check_date)
           IN \A i \in 1..Len(bks) :
                 BookingCounts(bks[i], date_str) =>
                    ~Overlaps(slot_start_mins, slot_end_mins,
                              _time_to_minutes(_parse_time(bks[i].start_time)),
                              _time_to_minutes(_parse_time(bks[i].end_time)))

\* a comparison that turns today away as well
IsPastOrToday(check_date, now) == check_date <= now

\* the test "check_date < today"
IsPast(check_date, now) == check_date < now

\* a loop that appends only the slots that are available
GridAvailableOnly(bks, check_date, current_mins, end_mins, duration) ==
    IF current_mins + duration > end_mins THEN <<>>
    ELSE SelectSeq([k \in 1..(((end_mins - duration - current_mins) \div slot_duration_minutes) + 1) |->
                      LET m == current_mins + (k - 1) * slot_duration_minutes
                      IN [start_time |-> strftime_time(_minutes_to_time(m)),
                          end_time |-> strftime_time(_minutes_to_time(m + duration)),
                          available |-> _is_slot_available(bks, check_date, _minutes_to_time(m), duration)]],
                   LAMBDA slot : slot.available)

\* the while loop: one slot for each start current_mins, current_mins + slot_duration_minutes, ...
\* as long as current_mins + duration <= end_mins
Grid(bks, check_date, current_mins, end_mins, duration) ==
    IF current_mins + duration > end_mins THEN <<>>
    ELSE [k \in 1..(((end_mins - duration - current_mins) \div slot_duration_minutes) + 1) |->
            LET m == current_mins + (k - 1) * slot_duration_minutes
            IN [start_time |-> strftime_time(_minutes_to_time(m)),
                end_time |-> strftime_time(_minutes_to_time(m + duration)),
                available |-> _is_slot_available(bks, check_date, _minutes_to_time(m), duration)]]

get_availability(bks, now, date_str, appointment_type) ==
    IF ~date_parses(date_str) THEN [date |-> date_str, available_slots |-> <<>>]
    ELSE
    LET check_date == strptime_date(date_str)
    IN  IF IsPast(check_date, now) THEN [date |-> date_str, available_slots |-> <<>>]
        ELSE IF _get_working_hours(check_date) = NoHours THEN [date |-> date_str, available_slots |-> <<>>]
        ELSE
        LET wh == _get_working_hours(check_date)
        IN [date |-> date_str,
            available_slots |-> Grid(bks, check_date,
                                     _time_to_minutes(_parse_time(wh.start)),
                                     _time_to_minutes(_parse_time(wh.end)),
                                     duration_of(appointment_type))]

(***************************************************************************)
(* Booking service.                                                        *)
(***************************************************************************)
NoId == [day |-> 0, suffix |-> 0]

NoCode == "None"

NoBooking == [booking_id |-> NoId, status |-> "None"]

\* a save that writes the new record alone instead of the whole list
_save_booking_last(bks, booking) == [store |-> Append(bks, booking), file |-> <<booking>>]

\* self.bookings.append(booking); the whole list is then dumped to the file
_save_booking(bks, booking) == [store |-> Append(bks, booking), file |-> Append(bks, booking)]

\* a failure that hands out an id all the same
FailedWithId(bks, f, error) ==
    [store |-> bks, file |-> f,
     ret |-> [booking_id |-> [day |-> 1, suffix |-> 1], status |-> "failed", confirmation_code |-> NoCode,
              details |-> [error |-> error]]]

\* a failure that always gives the reason of the first check
FailedAsInvalid(bks, f, error) ==
    [store |-> bks, file |-> f,
     ret |-> [booking_id |-> NoId, status |-> "failed", confirmation_code |-> NoCode,
              details |-> [error |-> "Invalid date or time format"]]]

Failed(bks, f, error) ==
    [store |-> bks, file |-> f,
     ret |-> [booking_id |-> NoId, status |-> "failed", confirmation_code |-> NoCode,
              details |-> [error |-> error]]]

\* the date stored in the booking record
StoredDate(date_str) == date_str

book_appointment(bks, f, appointment_type, date_str, start_time, patient, reason, booking_id, confirmation_code) ==
    IF ~date_parses(date_str) \/ ~time_parses(start_time)
    THEN Failed(bks, f, "Invalid date or time format")
    ELSE
    LET check_date == strptime_date(date_str)
        slot_start == _parse_time(start_time)
        duration == duration_of(appointment_type)
    IN  IF ~_is_slot_available(bks, check_date, slot_start, duration)
        THEN Failed(bks, f, "Time slot is not available")
        ELSE
        LET slot_end == _minutes_to_time(_time_to_minutes(slot_start) + duration)
            booking == [booking_id |-> booking_id,
                        date |-> StoredDate(date_str),
                        start_time |-> start_time,
                        end_time |-> strftime_time(slot_end),
                        type |-> appointment_type,
                        patient_name |-> patient.name,
                        patient_email |-> patient.email,
                        patient_phone |-> patient.phone,
                        reason |-> reason,
                        status |-> "confirmed",
                        confirmation_code |-> confirmation_code]
            saved == _save_booking(bks, booking)
        IN [store |-> saved.store, file |-> saved.file,
            ret |-> [booking_id |-> booking_id, status |-> "confirmed",
                     confirmation_code |-> confirmation_code,
                     details |-> [date |-> date_str, start_time |-> start_time,
                                  end_time |-> strftime_time(slot_end),
                                  appointment_type |-> appointment_type,
                                  duration |-> duration, patient |-> patient,
                                  reason |-> reason]]]

\* index of the first record with this id, 0 when there is none
FirstWithId(bks, booking_id) ==
    IF \E i \in 1..Len(bks) : bks[i].booking_id = booking_id
    THEN CHOOSE i \in 1..Len(bks) :
            /\ bks[i].booking_id = booking_id
            /\ \A j \in 1..(i - 1) : bks[j].booking_id # booking_id
    ELSE 0

get_booking(bks, booking_id) ==
    IF FirstWithId(bks, booking_id) = 0 THEN NoBooking ELSE bks[FirstWithId(bks, booking_id)]

\* a cancel that takes the record out of the list instead of marking it
cancel_booking_dropping(bks, f, booking_id) ==
    LET i == FirstWithId(bks, booking_id)
        rest == SubSeq(bks, 1, i - 1) \o SubSeq(bks, i + 1, Len(bks))
    IN  IF i = 0 THEN [store |-> bks, file |-> f, ret |-> FALSE]
        ELSE [store |-> rest, file |-> rest, ret |-> TRUE]

\* the record found is marked in place and then handed to _save_booking, which
\* appends it to the list a second time before the file is rewritten
cancel_booking(bks, f, booking_id) ==
    LET i == FirstWithId(bks, booking_id)
    IN  IF i = 0 THEN [store |-> bks, file |-> f, ret |-> FALSE]
        ELSE
        LET marked == [bks EXCEPT ![i].status = "cancelled"]
            saved == _save_booking(marked, marked[i])
        IN [store |-> saved.store, file |-> saved.file, ret |-> TRUE]

(***************************************************************************)
(* Inputs of the model.                                                    *)
(***************************************************************************)
DateText(mon, mw, day, dw) == [mon |-> mon, mw |-> mw, day |-> day, dw |-> dw]

\* Monday 5 January 2026, the day the behaviours start on
StartDay == strptime_date(DateText(1, 2, 5, 2))

\* "2026-01-05", "2026-1-5", "2026-01-10" (a Saturday), "2026-13-05"
DateInputs == {DateText(1, 2, 5, 2), DateText(1, 1, 5, 1), DateText(1, 2, 10, 2), DateText(13, 2, 5, 2)}

\* "10:00", "10:05", "10:15", "10:30", "12:00" (in the lunch break), "17:00" (closing time), "25:00"
TimeInputs == {TimeText(10, 0), TimeText(10, 5), TimeText(10, 15), TimeText(10, 30), TimeText(12, 0), TimeText(17, 0), TimeText(25, 0)}

TypeInputs == {"consultation", "followup"}

Patients == {[name |-> "Ann", email |-> "ann@example.com", phone |-> "555-0100"]}

Reasons == {"checkup"}

\* the suffixes of the ids given out on the day now
UsedSuffixes(bks, now) == {bks[i].booking_id.suffix : i \in {j \in 1..Len(bks) : bks[j].booking_id.day = now}}

\* str(uuid.uuid4())[:6]: any value of the suffix space, whatever the store holds.
\* The values are interchangeable, so a draw is a value already used that day or
\* the first unused one.
IdSuffixes(bks, now) == {s \in 1..NumIds : \A r \in 1..(s - 1) : r \in UsedSuffixes(bks, now)}

\* "APPT-" + datetime.now().strftime("%Y%m%d") + "-" + suffix
NewId(now, suffix) == [day |-> now, suffix |-> suffix]

\* str(uuid.uuid4())[:8].upper()
Codes == {"7F3A9C1B"}

\* an id no booking was given
UnknownId == NewId(StartDay, 0)

\* the ids a caller can ask about: those handed out so far, and an unknown one
IdInputs(bks) == {bks[i].booking_id : i \in 1..Len(bks)} \cup {UnknownId}

NoClient == [pc |-> "idle"]

\* the requests of the callers that share the server: "2026-01-05" or "2026-1-5",
\* "10:00" or "10:15", consultation or followup
Requests == [date : {DateText(1, 2, 5, 2), DateText(1, 1, 5, 1)}, start_time : {TimeText(10, 0), TimeText(10, 15)}, appointment_type : TypeInputs]

(***************************************************************************)
(* The engine called directly, one call at a time.                         *)
(***************************************************************************)
Init ==
    /\ bookings = <<>>
    /\ file = <<>>
    /\ today = StartDay
    /\ result = [op |-> "none"]
    /\ clients = [c \in 1..NumClients |-> NoClient]
    /\ bookings2 = <<>>

\* the bookings made so far: a record that cancel appended is a copy of one
Booked(bks) == Cardinality({[bks[i] EXCEPT !.status = "confirmed"] : i \in 1..Len(bks)})

Book(appointment_type, date_str, start_time, patient, reason, suffix, code) ==
    /\ Booked(bookings) < MaxBookings
    /\ Len(bookings) < MaxRecords
    /\ \E out \in {book_appointment(bookings, file, appointment_type, date_str, start_time,
                                    patient, reason, NewId(today, suffix), code)} :
          /\ bookings' = out.store
          /\ file' = out.file
          /\ result' = [op |-> "book", now |-> today,
                        args |-> [appointment_type |-> appointment_type, date |-> date_str,
                                  start_time |-> start_time, patient |-> patient,
                                  reason |-> reason],
                        ret |-> out.ret]
    /\ UNCHANGED <<today, clients, bookings2>>

Cancel(booking_id) ==
    /\ Len(bookings) < MaxRecords
    /\ \E out \in {cancel_booking(bookings, file, booking_id)} :
          /\ bookings' = out.store
          /\ file' = out.file
          /\ result' = [op |-> "cancel", now |-> today,
                        args |-> [booking_id |-> booking_id],
                        target |-> get_booking(bookings, booking_id),
                        ret |-> out.ret]
    /\ UNCHANGED <<today, clients, bookings2>>

GetBooking(booking_id) ==
    /\ result' = [op |-> "get_booking", now |-> today,
                  args |-> [booking_id |-> booking_id],
                  ret |-> get_booking(bookings, booking_id)]
    /\ UNCHANGED <<bookings, file, today, clients, bookings2>>

\* a query that also drops the cancelled records from the store
GetAvailabilityPruning(date_str, appointment_type) ==
    /\ result' = [op |-> "get_availability", now |-> today,
                  args |-> [date |-> date_str, appointment_type |-> appointment_type],
                  ret |-> get_availability(bookings, today, date_str, appointment_type)]
    /\ bookings' = SelectSeq(bookings, LAMBDA b : b.status = "confirmed")
    /\ UNCHANGED <<file, today, clients, bookings2>>

GetAvailability(date_str, appointment_type) ==
    /\ result' = [op |-> "get_availability", now |-> today,
                  args |-> [date |-> date_str, appointment_type |-> appointment_type],
                  ret |-> get_availability(bookings, today, date_str, appointment_type)]
    /\ UNCHANGED <<bookings, file, today, clients, bookings2>>

\* midnight passes in the configured timezone
Tick ==
    /\ today < StartDay + MaxTicks
    /\ today' = today + 1
    /\ UNCHANGED <<bookings, file, result, clients, bookings2>>

Next ==
    \/ \E t \in TypeInputs, d \in DateInputs, s \in TimeInputs, p \in Patients, r \in Reasons, x \in IdSuffixes(bookings, today), k \in Codes :
          Book(t, d, s, p, r, x, k)
    \/ \E b \in IdInputs(bookings) : Cancel(b)
    \/ \E b \in IdInputs(bookings) : GetBooking(b)
    \/ \E d \in DateInputs, t \in TypeInputs : GetAvailability(d, t)
    \/ Tick

Spec == Init /\ [][Next]_vars

(***************************************************************************)
(* Callers sharing the server.  chat() is a coroutine that calls the       *)
(* blocking agent.chat() without awaiting, so the event loop runs each     *)
(* request to its end before it starts the next one: a request that has    *)
(* arrived waits (pc = "pending") until the loop serves it.  A caller      *)
(* first asks for the availability of the slot it wants, in one request,   *)
(* and books it in a later one.                                            *)
(***************************************************************************)
DateOf(booking) == strptime_date(booking.date)

StartOf(booking) == _time_to_minutes(_parse_time(booking.start_time))

EndOf(booking) == _time_to_minutes(_parse_time(booking.end_time))

\* the request's interval meets a confirmed booking of the same calendar date
MeetsConfirmed(bks, req) ==
    \E i \in 1..Len(bks) :
       /\ bks[i].status = "confirmed"
       /\ DateOf(bks[i]) = strptime_date(req.date)
       /\ Overlaps(_time_to_minutes(_parse_time(req.start_time)),
                   _time_to_minutes(_parse_time(req.start_time)) + duration_of(req.appointment_type),
                   StartOf(bks[i]), EndOf(bks[i]))

\* the availability answer lists the slot starting at start_time as available
ListsAvailable(answer, start_time) ==
    \E k \in 1..Len(answer.available_slots) :
       /\ answer.available_slots[k].start_time = strftime_time(_parse_time(start_time))
       /\ answer.available_slots[k].available

Pending == {c \in 1..NumClients : clients[c].pc = "pending"}

\* a chat request that runs check_availability for the slot the caller wants
Check(c, req) ==
    /\ clients[c].pc = "idle"
    /\ clients' = [clients EXCEPT ![c] =
          [pc |-> "checked", req |-> req,
           saw |-> ListsAvailable(get_availability(bookings, today, req.date, req.appointment_type), req.start_time)]]
    /\ UNCHANGED <<bookings, file, today, result, bookings2>>

\* the caller's booking request reaches the server
Submit(c) ==
    /\ clients[c].pc = "checked"
    /\ clients[c].saw
    /\ clients' = [clients EXCEPT ![c] =
          [pc |-> "pending", req |-> clients[c].req, saw |-> clients[c].saw, with |-> Pending]]
    /\ UNCHANGED <<bookings, file, today, result, bookings2>>

\* the event loop runs the booking request to its end
Serve(c, patient, reason, suffix, code) ==
    /\ clients[c].pc = "pending"
    /\ \E out \in {book_appointment(bookings, file, clients[c].req.appointment_type, clients[c].req.date,
                                    clients[c].req.start_time, patient, reason, NewId(today, suffix), code)} :
          /\ bookings' = out.store
          /\ file' = out.file
          /\ clients' = [clients EXCEPT ![c] =
                [pc |-> "done", req |-> clients[c].req, saw |-> clients[c].saw, with |-> clients[c].with,
                 raced |-> MeetsConfirmed(bookings, clients[c].req), ret |-> out.ret]]
    /\ UNCHANGED <<today, result, bookings2>>

NextConc ==
    \/ \E c \in 1..NumClients, req \in Requests : Check(c, req)
    \/ \E c \in 1..NumClients : Submit(c)
    \/ \E c \in 1..NumClients, p \in Patients, r \in Reasons, x \in IdSuffixes(bookings, today), k \in Codes :
          Serve(c, p, r, x, k)

SpecConc == Init /\ [][NextConc]_vars

(***************************************************************************)
(* The availability tool of the agent: slots filtered by time of day, and  *)
(* suggestions over the coming days.                                       *)
(***************************************************************************)
\* time_preference=None
NoPreference == "None"

\* check_date.strftime("%A")
strftime_A(check_date) ==
    <<"Monday", "Tuesday", "Wednesday", "Thursday", "Friday", "Saturday", "Sunday">>[((check_date + 2) % 7) + 1]

\* the truth value of time_preference in "if time_preference and available_slots"
IsSet(time_preference) == time_preference \notin {NoPreference, ""}

\* int(slot['start_time'].split(':')[0])
HourOf(slot) == slot.start_time.hh

\* branches whose afternoon ends an hour early
MatchesPreferenceShort(time_preference, hour) ==
    \/ time_preference = "morning" /\ 6 <= hour /\ hour < 12
    \/ time_preference = "afternoon" /\ 12 <= hour /\ hour < 16
    \/ time_preference = "evening" /\ 17 <= hour /\ hour < 22

\* the three branches that append the slot
MatchesPreference(time_preference, hour) ==
    \/ time_preference = "morning" /\ 6 <= hour /\ hour < 12
    \/ time_preference = "afternoon" /\ 12 <= hour /\ hour < 17
    \/ time_preference = "evening" /\ 17 <= hour /\ hour < 22

get_available_slots_only(bks, now, date_str, appointment_type, time_preference) ==
    LET availability == get_availability(bks, now, date_str, appointment_type)
        available_slots == SelectSeq(availability.available_slots, LAMBDA slot : slot.available)
    IN  IF IsSet(time_preference) /\ available_slots # <<>>
        THEN SelectSeq(available_slots, LAMBDA slot : MatchesPreference(time_preference, HourOf(slot)))
        ELSE available_slots

check_availability(bks, now, date_str, appointment_type, time_preference) ==
    LET available_slots == get_available_slots_only(bks, now, date_str, appointment_type, time_preference)
    IN [date |-> date_str, appointment_type |-> appointment_type,
        time_preference |-> time_preference,
        available_slots |-> available_slots, slots_count |-> Len(available_slots)]

\* a slice that does not cut
SliceWhole(seq, n) == seq

\* the slice seq[:n] of Python: the first n elements, all but the last -n when n is negative
Slice(seq, n) ==
    IF n >= 0 THEN SubSeq(seq, 1, IF n < Len(seq) THEN n ELSE Len(seq))
    ELSE SubSeq(seq, 1, IF Len(seq) + n > 0 THEN Len(seq) + n ELSE 0)

\* days_to_check=14 and max_dates=5 in the call of suggest_slots, [:5] slots a date
DaysToCheck == 14

MaxDates == 5

SlotsPerDate == 5

\* the loop "for i in range(1, days_to_check + 1)" from its step i on, with the
\* dates found so far; it ends early once max_dates dates are found
RECURSIVE find_next_from(_, _, _, _, _, _, _, _, _)
find_next_from(bks, now, local_today, appointment_type, days_to_check, max_dates, time_preference, i, available_dates) ==
    IF i > days_to_check THEN available_dates
    ELSE
    LET check_date == local_today + i
        date_str == strftime_date(check_date)
        checked == check_availability(bks, now, date_str, appointment_type, time_preference)
        found == Append(available_dates,
                        [date |-> date_str, day_name |-> strftime_A(check_date),
                         available_slots |-> Slice(checked.available_slots, SlotsPerDate),
                         total_slots |-> checked.slots_count])
    IN  IF checked.slots_count > 0
        THEN IF Len(found) >= max_dates THEN found
             ELSE find_next_from(bks, now, local_today, appointment_type, days_to_check, max_dates, time_preference, i + 1, found)
        ELSE find_next_from(bks, now, local_today, appointment_type, days_to_check, max_dates, time_preference, i + 1, available_dates)

\* local_today is datetime.now().date(), the date of the server's own clock
find_next_available_dates(bks, now, local_today, appointment_type, days_to_check, max_dates, time_preference) ==
    find_next_from(bks, now, local_today, appointment_type, days_to_check, max_dates, time_preference, 1, <<>>)

Suggestion(date_str, slot, name) ==
    [date |-> date_str, start_time |-> slot.start_time, end_time |-> slot.end_time, day_name |-> name]

\* the two nested loops over the dates and their slots, which stop as soon as
\* len(suggestions) >= num_suggestions
RECURSIVE collect_suggestions(_, _, _)
collect_suggestions(available_dates, num_suggestions, suggestions) ==
    IF available_dates = <<>> THEN suggestions
    ELSE
    LET date_info == Head(available_dates)
        room == IF num_suggestions > Len(suggestions) THEN num_suggestions - Len(suggestions) ELSE 0
        taken == Slice(date_info.available_slots, room)
        more == suggestions \o [k \in 1..Len(taken) |-> Suggestion(date_info.date, taken[k], date_info.day_name)]
    IN  IF Len(more) >= num_suggestions THEN more
        ELSE collect_suggestions(Tail(available_dates), num_suggestions, more)

\* preferred_date=None
NoDate == DateText(0, 0, 0, 0)

suggest_slots(bks, now, local_today, preferred_date, appointment_type, time_preference, num_suggestions) ==
    IF preferred_date # NoDate
    THEN LET checked == check_availability(bks, now, preferred_date, appointment_type, time_preference)
             taken == Slice(checked.available_slots, num_suggestions)
         IN  IF checked.slots_count > 0
             THEN [k \in 1..Len(taken) |->
                     Suggestion(preferred_date, taken[k], strftime_A(strptime_date(preferred_date)))]
             ELSE <<>>
    ELSE collect_suggestions(
            find_next_available_dates(bks, now, local_today, appointment_type, DaysToCheck, MaxDates, time_preference),
            num_suggestions, <<>>)

\* what the agent can pass as time_preference: nothing, or a value of the enum of its tool schema
PreferenceInputs == {NoPreference, "morning", "afternoon", "evening", "any"}

\* "2026-01-06", the Tuesday after the first day, and "2026-01-10", a Saturday
ToolDates == {DateText(1, 2, 6, 2), DateText(1, 2, 10, 2)}

\* "09:00", "09:30"
ToolTimes == {TimeText(9, 0), TimeText(9, 30)}

\* the date of the server's own clock is the date in the configured timezone,
\* the day before it or the day after it
LocalOffsets == {0 - 1, 0, 1}

NumInputs == {0, 2, 7}

\* the bookings made and the suggestions asked for here are consultations,
\* the suggestions with no preference or for the morning
SuggestTypes == {"consultation"}

SuggestPreferences == {NoPreference, "morning"}

GetAvailableSlotsOnly(date_str, appointment_type, time_preference) ==
    /\ result' = [op |-> "get_available_slots_only", now |-> today,
                  args |-> [date |-> date_str, appointment_type |-> appointment_type,
                            time_preference |-> time_preference],
                  ret |-> get_available_slots_only(bookings, today, date_str, appointment_type, time_preference)]
    /\ UNCHANGED <<bookings, file, today, clients, bookings2>>

\* the server's clock is read only when no date is preferred
SuggestSlots(offset, preferred_date, appointment_type, time_preference, num_suggestions) ==
    /\ preferred_date # NoDate => offset = 0
    /\ result' = [op |-> "suggest_slots", now |-> today, local |-> today + offset,
                  args |-> [preferred_date |-> preferred_date, appointment_type |-> appointment_type,
                            time_preference |-> time_preference, num_suggestions |-> num_suggestions],
                  ret |-> suggest_slots(bookings, today, today + offset, preferred_date,
                                        appointment_type, time_preference, num_suggestions)]
    /\ UNCHANGED <<bookings, file, today, clients, bookings2>>

NextTools ==
    \/ \E t \in SuggestTypes, d \in ToolDates, s \in ToolTimes, p \in Patients, r \in Reasons, x \in IdSuffixes(bookings, today), k \in Codes :
          Book(t, d, s, p, r, x, k)
    \/ \E b \in IdInputs(bookings) : Cancel(b)
    \/ \E d \in ToolDates, t \in TypeInputs, w \in PreferenceInputs : GetAvailableSlotsOnly(d, t, w)
    \/ \E o \in LocalOffsets, d \in ToolDates \cup {NoDate}, t \in SuggestTypes, w \in SuggestPreferences, n \in NumInputs :
          SuggestSlots(o, d, t, w, n)

SpecTools == Init /\ [][NextTools]_vars

(***************************************************************************)
(* The schedule file: writes that fail, and the engine started again from  *)
(* the file.                                                               *)
(***************************************************************************)
\* the file after open(path, 'w') emptied it and json.dump stopped before the end
Truncated == <<[status |-> "unreadable"]>>

\* _save_booking when the write raises: the booking was appended to the list
\* before the file is touched; the file is as it was when open() raises and
\* cut short when json.dump raises
_save_booking_raising(bks, booking, f, cut) ==
    [store |-> Append(bks, booking), file |-> IF cut THEN Truncated ELSE f]

\* str(e) of the exception of the write
WriteError == "OSError"

\* self.schedule_data.get('existing_appointments', []) of the document read from the file
_load_existing_appointments(f) == f

\* book_appointment passes its checks and the write in _save_booking raises;
\* create_booking catches the exception and returns a failed result
BookWriteFails(appointment_type, date_str, start_time, patient, reason, suffix, code, cut) ==
    /\ Booked(bookings) < MaxBookings
    /\ Len(bookings) < MaxRecords
    /\ \E out \in {book_appointment(bookings, file, appointment_type, date_str, start_time,
                                    patient, reason, NewId(today, suffix), code)} :
          /\ out.ret.status = "confirmed"
          /\ \E saved \in {_save_booking_raising(bookings, out.store[Len(out.store)], file, cut)} :
                /\ bookings' = saved.store
                /\ file' = saved.file
          /\ result' = [op |-> "book", now |-> today,
                        args |-> [appointment_type |-> appointment_type, date |-> date_str,
                                  start_time |-> start_time, patient |-> patient,
                                  reason |-> reason],
                        ret |-> [booking_id |-> NoId, status |-> "failed",
                                 confirmation_code |-> NoCode,
                                 details |-> [error |-> WriteError]]]
    /\ UNCHANGED <<today, clients, bookings2>>

\* cancel_booking finds the record, marks it, and the write in _save_booking
\* raises: the exception leaves cancel_booking, nothing is returned
CancelWriteFails(booking_id, cut) ==
    /\ Len(bookings) < MaxRecords
    /\ FirstWithId(bookings, booking_id) # 0
    /\ \E marked \in {[bookings EXCEPT ![FirstWithId(bookings, booking_id)].status = "cancelled"]} :
          \E saved \in {_save_booking_raising(marked, marked[FirstWithId(bookings, booking_id)], file, cut)} :
             /\ bookings' = saved.store
             /\ file' = saved.file
    /\ result' = [op |-> "cancel_raised", now |-> today, args |-> [booking_id |-> booking_id]]
    /\ UNCHANGED <<today, clients, bookings2>>

\* the process is started again: __init__ reads the file and takes its list
\* of appointments as the store; a file cut short does not load
Restart ==
    /\ file # Truncated
    /\ bookings' = _load_existing_appointments(file)
    /\ result' = [op |-> "restart", now |-> today]
    /\ UNCHANGED <<file, today, clients, bookings2>>

NextIO ==
    \/ \E t \in TypeInputs, d \in DateInputs, s \in TimeInputs, p \in Patients, r \in Reasons, x \in IdSuffixes(bookings, today), k \in Codes :
          Book(t, d, s, p, r, x, k)
    \/ \E b \in IdInputs(bookings) : Cancel(b)
    \/ \E t \in TypeInputs, d \in DateInputs, s \in TimeInputs, p \in Patients, r \in Reasons, x \in IdSuffixes(bookings, today), k \in Codes, cut \in BOOLEAN :
          BookWriteFails(t, d, s, p, r, x, k, cut)
    \/ \E b \in IdInputs(bookings), cut \in BOOLEAN : CancelWriteFails(b, cut)
    \/ Restart

SpecIO == Init /\ [][NextIO]_vars

(***************************************************************************)
(* The completeness check the agent runs on the patient details before it  *)
(* books.  An optional string is None or a text.                           *)
(***************************************************************************)
NoText == [given |-> FALSE, text |-> ""]

Text(t) == [given |-> TRUE, text |-> t]

\* "not x" of an optional string that treats only None as missing
IsNone(x) == ~x.given

\* "not x" of an optional string: None and the empty string
Not(x) == ~x.given \/ x.text = ""

validate_booking_info(patient_name, patient_email, patient_phone, reason) ==
    LET missing_fields ==
           (IF Not(patient_name) THEN <<"name">> ELSE <<>>)
           \o (IF Not(patient_email) THEN <<"email">> ELSE <<>>)
           \o (IF Not(patient_phone) THEN <<"phone">> ELSE <<>>)
           \o (IF Not(reason) THEN <<"reason for visit">> ELSE <<>>)
    IN [is_valid |-> Len(missing_fields) = 0, missing_fields |-> missing_fields]

\* None, "", a blank and a text
NameInputs == {NoText, Text(""), Text(" "), Text("John Doe")}

EmailInputs == {NoText, Text(""), Text(" "), Text("john@example.com")}

PhoneInputs == {NoText, Text(""), Text(" "), Text("+1-555-0100")}

ReasonInputs == {NoText, Text(""), Text(" "), Text("Checkup")}

ValidateBookingInfo(patient_name, patient_email, patient_phone, reason) ==
    /\ result' = [op |-> "validate_booking_info", now |-> today,
                  args |-> [patient_name |-> patient_name, patient_email |-> patient_email,
                            patient_phone |-> patient_phone, reason |-> reason],
                  ret |-> validate_booking_info(patient_name, patient_email, patient_phone, reason)]
    /\ UNCHANGED <<bookings, file, today, clients, bookings2>>

NextValidate ==
    \E n \in NameInputs, e \in EmailInputs, p \in PhoneInputs, r \in ReasonInputs :
       ValidateBookingInfo(n, e, p, r)

SpecValidate == Init /\ [][NextValidate]_vars

(***************************************************************************)
(* find_next_available_dates called on its own, with the look-ahead and    *)
(* the cap chosen by the caller.                                           *)
(***************************************************************************)
DaysInputs == {2, 14}

MaxDatesInputs == {0, 2, 5}

FindNextAvailableDates(offset, appointment_type, days_to_check, max_dates, time_preference) ==
    /\ result' = [op |-> "find_next_available_dates", now |-> today, local |-> today + offset,
                  args |-> [appointment_type |-> appointment_type, days_to_check |-> days_to_check,
                            max_dates |-> max_dates, time_preference |-> time_preference],
                  ret |-> find_next_available_dates(bookings, today, today + offset, appointment_type,
                                                    days_to_check, max_dates, time_preference)]
    /\ UNCHANGED <<bookings, file, today, clients, bookings2>>

NextDates ==
    \/ \E t \in SuggestTypes, d \in ToolDates, s \in ToolTimes, p \in Patients, r \in Reasons, x \in IdSuffixes(bookings, today), k \in Codes :
          Book(t, d, s, p, r, x, k)
    \/ \E b \in IdInputs(bookings) : Cancel(b)
    \/ \E o \in LocalOffsets, t \in SuggestTypes, n \in DaysInputs, m \in MaxDatesInputs, w \in SuggestPreferences :
          FindNextAvailableDates(o, t, n, m, w)

SpecDates == Init /\ [][NextDates]_vars

(***************************************************************************)
(* Two engines on one schedule file.  Each CalendlyMockAPI object reads    *)
(* the file once, in __init__, and from then on works on its own list      *)
(* self.bookings, which _save_booking dumps over the file.  bookings is    *)
(* the list of the first object and bookings2 the list of the second.      *)
(***************************************************************************)
OtherBook(appointment_type, date_str, start_time, patient, reason, suffix, code) ==
    /\ Booked(bookings2) < MaxBookings
    /\ Len(bookings2) < MaxRecords
    /\ \E out \in {book_appointment(bookings2, file, appointment_type, date_str, start_time,
                                    patient, reason, NewId(today, suffix), code)} :
          /\ bookings2' = out.store
          /\ file' = out.file
          /\ result' = [op |-> "other_book", now |-> today,
                        args |-> [appointment_type |-> appointment_type, date |-> date_str,
                                  start_time |-> start_time, patient |-> patient,
                                  reason |-> reason],
                        ret |-> out.ret]
    /\ UNCHANGED <<bookings, today, clients>>

OtherCancel(booking_id) ==
    /\ Len(bookings2) < MaxRecords
    /\ \E out \in {cancel_booking(bookings2, file, booking_id)} :
          /\ bookings2' = out.store
          /\ file' = out.file
          /\ result' = [op |-> "other_cancel", now |-> today,
                        args |-> [booking_id |-> booking_id],
                        ret |-> out.ret]
    /\ UNCHANGED <<bookings, today, clients>>

\* the second object is constructed: its list is what the file holds
OtherLoad ==
    /\ bookings2' = _load_existing_appointments(file)
    /\ result' = [op |-> "other_load", now |-> today]
    /\ UNCHANGED <<bookings, file, today, clients>>

NextTwo ==
    \/ \E t \in SuggestTypes, d \in ToolDates, s \in ToolTimes, p \in Patients, r \in Reasons, x \in IdSuffixes(bookings \o bookings2, today), k \in Codes :
          Book(t, d, s, p, r, x, k)
    \/ \E b \in IdInputs(bookings \o bookings2) : Cancel(b)
    \/ Restart
    \/ \E t \in SuggestTypes, d \in ToolDates, s \in ToolTimes, p \in Patients, r \in Reasons, x \in IdSuffixes(bookings \o bookings2, today), k \in Codes :
          OtherBook(t, d, s, p, r, x, k)
    \/ \E b \in IdInputs(bookings \o bookings2) : OtherCancel(b)
    \/ OtherLoad

SpecTwo == Init /\ [][NextTwo]_vars

(***************************************************************************)
(* Properties.                                                             *)
(***************************************************************************)
Confirmed(bks) == {i \in 1..Len(bks) : bks[i].status = "confirmed"}

\* two records of the same calendar date whose intervals [start, end) meet
Clash(a, b) == DateOf(a) = DateOf(b) /\ Overlaps(StartOf(a), EndOf(a), StartOf(b), EndOf(b))

LastCallWas(op) == result.op = op

BookConfirmed == LastCallWas("book") /\ result.ret.status = "confirmed"

\* C1: after any sequence of book and cancel calls, run one after the other from
\* the empty store, no two confirmed bookings of the same date have overlapping
\* intervals [start, end).
C1_NoConfirmedOverlap ==
    \A i, j \in Confirmed(bookings) : i < j => ~Clash(bookings[i], bookings[j])

\* C2: a book call that repeats the (date, appointmentType, startTime) of a
\* booking that was confirmed before it and not cancelled since is not confirmed.
C2_RepeatedBookFails ==
    BookConfirmed =>
       \A i \in Confirmed(bookings) \ {Len(bookings)} :
          ~(/\ bookings[i].date = result.args.date
            /\ bookings[i].type = result.args.appointment_type
            /\ bookings[i].start_time = result.args.start_time)

SameSlot(r1, r2) ==
    /\ strptime_date(r1.date) = strptime_date(r2.date)
    /\ _parse_time(r1.start_time) = _parse_time(r2.start_time)
    /\ r1.appointment_type = r2.appointment_type

\* C3: of two book requests for the same slot, both seen open and both in
\* progress at the same time, at most one returns confirmed.
C3_OneOfTwoConfirmed ==
    \A c1, c2 \in 1..NumClients :
       (/\ c1 # c2
        /\ clients[c1].pc = "done"
        /\ clients[c2].pc = "done"
        /\ c1 \in clients[c2].with
        /\ SameSlot(clients[c1].req, clients[c2].req))
       => ~(clients[c1].ret.status = "confirmed" /\ clients[c2].ret.status = "confirmed")

\* C4: a caller that saw its slot available, and whose book call runs after a
\* booking overlapping that slot was confirmed, gets failed with the reason
\* that the slot is not available.
C4_RevalidatedAtCommit ==
    \A c \in 1..NumClients :
       (clients[c].pc = "done" /\ clients[c].saw /\ clients[c].raced)
       => /\ clients[c].ret.status = "failed"
          /\ clients[c].ret.details.error = "Time slot is not available"

\* the booking that cancel found, when it returned true for a confirmed one and
\* no confirmed booking is left that overlaps its interval
CancelledFree ==
    /\ LastCallWas("cancel")
    /\ result.ret
    /\ result.target.status = "confirmed"
    /\ \A i \in Confirmed(bookings) : ~Clash(bookings[i], result.target)

RebookConfirmed(b) ==
    \A p \in Patients, r \in Reasons, x \in 1..NumIds, k \in Codes :
       book_appointment(bookings, file, b.type, b.date, b.start_time, p, r, NewId(today, x), k).ret.status = "confirmed"

\* the start is one of the starts the grid of that day enumerates
OnGrid(b) ==
    (StartOf(b) - _time_to_minutes(_parse_time(working_hours[day_name(DateOf(b))].start))) % slot_duration_minutes = 0

\* C5 as the spec states it: after cancel returned true for a confirmed booking
\* that no other confirmed booking overlaps, getAvailability for its date lists
\* its start slot as available and a book for the same slot is confirmed.
C5_CancelFreesSlot ==
    CancelledFree =>
       /\ ListsAvailable(get_availability(bookings, today, result.target.date, result.target.type), result.target.start_time)
       /\ RebookConfirmed(result.target)

\* the slots of an answer that start at start_time
SlotsAt(answer, start_time) ==
    {k \in 1..Len(answer.available_slots) : answer.available_slots[k].start_time = strftime_time(_parse_time(start_time))}

\* C5 amended: the book for the same date, type and start time is confirmed in
\* every case. getAvailability for that date is empty when the date is before
\* today at the time of the query; otherwise it lists a slot with the booking's
\* start time exactly when that start is on the slot grid of the day, and every
\* slot it lists with that start time is available.
C5_CancelFreesSlotAmended ==
    CancelledFree =>
       \A answer \in {get_availability(bookings, today, result.target.date, result.target.type)} :
          /\ RebookConfirmed(result.target)
          /\ DateOf(result.target) < today => answer.available_slots = <<>>
          /\ ~(DateOf(result.target) < today) =>
                /\ OnGrid(result.target) <=> SlotsAt(answer, result.target.start_time) # {}
                /\ \A k \in SlotsAt(answer, result.target.start_time) : answer.available_slots[k].available

\* a cancelled booking of today or later with its start on the grid
C5_Witness == CancelledFree /\ ~(DateOf(result.target) < today) /\ OnGrid(result.target)

\* C6: after book returned confirmed with a bookingId, getBooking(bookingId)
\* is a confirmed booking with the date, times, type and patient of that call.
C6_RoundTrip ==
    BookConfirmed =>
       LET b == get_booking(bookings, result.ret.booking_id)
       IN /\ b.status = "confirmed"
          /\ b.date = result.args.date
          /\ b.start_time = result.args.start_time
          /\ b.end_time = result.ret.details.end_time
          /\ b.type = result.args.appointment_type
          /\ b.patient_name = result.args.patient.name
          /\ b.patient_email = result.args.patient.email
          /\ b.patient_phone = result.args.patient.phone

\* the answer of the last call when that call was get_availability for a date that parses
Answered == LastCallWas("get_availability") /\ date_parses(result.args.date)

AskedDate == strptime_date(result.args.date)

SlotStart(slot) == _time_to_minutes(_parse_time(slot.start_time))

SlotEnd(slot) == _time_to_minutes(_parse_time(slot.end_time))

\* C7: every slot of a getAvailability answer with available=true lies within
\* the working hours of its weekday, does not meet the lunch break and does not
\* overlap a confirmed booking of that date.
C7_AvailableIsFree ==
    Answered =>
       \A k \in 1..Len(result.ret.available_slots) :
          LET slot == result.ret.available_slots[k]
          IN slot.available =>
                /\ day_name(AskedDate) \in DOMAIN working_hours
                /\ SlotStart(slot) >= _time_to_minutes(_parse_time(working_hours[day_name(AskedDate)].start))
                /\ SlotEnd(slot) <= _time_to_minutes(_parse_time(working_hours[day_name(AskedDate)].end))
                /\ ~Overlaps(SlotStart(slot), SlotEnd(slot),
                             _time_to_minutes(_parse_time(lunch_break.start)),
                             _time_to_minutes(_parse_time(lunch_break.end)))
                /\ \A i \in Confirmed(bookings) :
                      DateOf(bookings[i]) = AskedDate =>
                         ~Overlaps(SlotStart(slot), SlotEnd(slot), StartOf(bookings[i]), EndOf(bookings[i]))

\* C8: for a date whose weekday has no working hours, getAvailability returns
\* no slots, whatever the appointment type and the store.
C8_NonWorkingDayEmpty ==
    (Answered /\ day_name(AskedDate) \notin DOMAIN working_hours)
       => result.ret.available_slots = <<>>

C8_Witness ==
    /\ Answered
    /\ day_name(AskedDate) \notin DOMAIN working_hours
    /\ ~(AskedDate < result.now)
    /\ Confirmed(bookings) # {}

\* C9: for a date before today getAvailability returns no slots; today itself
\* is not turned away (a working day that is today has its grid).
C9_PastDateEmpty ==
    Answered =>
       /\ AskedDate < result.now => result.ret.available_slots = <<>>
       /\ (AskedDate = result.now /\ day_name(AskedDate) \in DOMAIN working_hours)
             => result.ret.available_slots # <<>>

C9_Witness ==
    /\ Answered
    /\ AskedDate < result.now
    /\ day_name(AskedDate) \in DOMAIN working_hours
    /\ Confirmed(bookings) # {}

\* C10: with no book or cancel since the last getAvailability and the same
\* today, the same call returns the same answer again, and a getAvailability
\* call leaves the store and the file as they were.
C10_Repeatable ==
    (LastCallWas("get_availability") /\ result.now = today)
       => get_availability(bookings, today, result.args.date, result.args.appointment_type) = result.ret

C10_StoreUntouched ==
    (result'.op = "get_availability" /\ result' # result) => (bookings' = bookings /\ file' = file)

\* C10: getAvailability is repeatable and leaves the store unchanged (both parts).
C10_Idempotent == []C10_Repeatable /\ [][C10_StoreUntouched]_vars

C10_Witness ==
    /\ LastCallWas("get_availability")
    /\ result.now = today
    /\ Confirmed(bookings) # {}
    /\ \E k \in 1..Len(result.ret.available_slots) : ~result.ret.available_slots[k].available
    /\ \E k \in 1..Len(result.ret.available_slots) : result.ret.available_slots[k].available

\* the slots of the last answer that start at h:m
AnswerSlotsAt(h, m) ==
    {k \in 1..Len(result.ret.available_slots) : result.ret.available_slots[k].start_time = TimeText(h, m)}

\* the last call asked for a Monday that was not past, for a consultation, on an empty store
MondayConsultationNoBookings ==
    /\ Answered
    /\ bookings = <<>>
    /\ day_name(AskedDate) = "monday"
    /\ ~(AskedDate < result.now)
    /\ result.args.appointment_type = "consultation"

\* C11: with no bookings, getAvailability for a Monday that is not past and a
\* consultation has a slot starting 11:45 with available=false and a slot
\* starting 09:00 with available=true.
C11_LunchScenario ==
    MondayConsultationNoBookings =>
       /\ \E k \in AnswerSlotsAt(11, 45) : ~result.ret.available_slots[k].available
       /\ \E k \in AnswerSlotsAt(9, 0) : result.ret.available_slots[k].available

C11_Witness == MondayConsultationNoBookings /\ result.args.date = DateText(1, 1, 5, 1)

\* a book call has just run: the last call is a book and the step was not a stutter
BookStep == result'.op = "book" /\ (result' # result \/ bookings' # bookings)

\* a0 < b1 and b0 < a1
StrictOverlap(a0, a1, b0, b1) == a0 < b1 /\ b0 < a1

\* some confirmed booking of the store is on the calendar date of the request
\* and its interval meets the requested one by the test a0 < b1 and b0 < a1
RequestOverlaps(bks, args) ==
    \E i \in Confirmed(bks) :
       /\ DateOf(bks[i]) = strptime_date(args.date)
       /\ StrictOverlap(_time_to_minutes(_parse_time(args.start_time)),
                        _time_to_minutes(_parse_time(args.start_time)) + duration_of(args.appointment_type),
                        StartOf(bks[i]), EndOf(bks[i]))

\* the request is inside the working hours of its day and clear of the lunch break
RequestInOpenHours(args) ==
    /\ day_name(strptime_date(args.date)) \in DOMAIN working_hours
    /\ \A a0 \in {_time_to_minutes(_parse_time(args.start_time))} :
          \A a1 \in {a0 + duration_of(args.appointment_type)} :
             /\ a0 >= _time_to_minutes(_parse_time(working_hours[day_name(strptime_date(args.date))].start))
             /\ a1 <= _time_to_minutes(_parse_time(working_hours[day_name(strptime_date(args.date))].end))
             /\ ~StrictOverlap(a0, a1, _time_to_minutes(_parse_time(lunch_break.start)),
                               _time_to_minutes(_parse_time(lunch_break.end)))

C12_Decides ==
    (BookStep /\ date_parses(result'.args.date) /\ time_parses(result'.args.start_time)
              /\ RequestInOpenHours(result'.args))
       => (result'.ret.status = "confirmed" <=> ~RequestOverlaps(bookings, result'.args))

\* C12: a book call inside the open hours is confirmed exactly when no
\* confirmed booking [b0,b1) of the same date has a0 < b1 and b0 < a1 with the
\* requested [a0,a1): after 10:00-10:30 is confirmed, 10:15 fails and 10:30 succeeds.
C12_OverlapDecides == [][C12_Decides]_vars

\* the preference is absent or is none of morning, afternoon, evening
NotATimeOfDay(time_preference) == time_preference \notin {"morning", "afternoon", "evening"}

\* C13: getAvailableSlotsOnly with a preference that is absent or is not one of
\* morning, afternoon, evening returns exactly the available=true slots of
\* getAvailability for that date and type.
C13_NoFiltering ==
    (LastCallWas("get_available_slots_only") /\ NotATimeOfDay(result.args.time_preference))
       => result.ret = SelectSeq(get_availability(bookings, result.now, result.args.date,
                                                  result.args.appointment_type).available_slots,
                                 LAMBDA slot : slot.available)

\* the last call asked for suggestions without a preferred date
SuggestedFreely == LastCallWas("suggest_slots") /\ result.args.preferred_date = NoDate

\* C14: suggestSlots with no preferred date returns its entries by ascending
\* date and, within a date, by ascending start time, and never more than
\* numSuggestions of them (numSuggestions >= 0).
C14_OrderedAndCapped ==
    (SuggestedFreely /\ result.args.num_suggestions >= 0) =>
       /\ Len(result.ret) <= result.args.num_suggestions
       /\ \A k, l \in 1..Len(result.ret) :
             k < l =>
                \/ strptime_date(result.ret[k].date) < strptime_date(result.ret[l].date)
                \/ /\ strptime_date(result.ret[k].date) = strptime_date(result.ret[l].date)
                   /\ _time_to_minutes(_parse_time(result.ret[k].start_time))
                         < _time_to_minutes(_parse_time(result.ret[l].start_time))

\* seven suggestions over two dates, the first of them with a confirmed booking
C14_Witness ==
    /\ SuggestedFreely
    /\ Len(result.ret) = 7
    /\ result.ret[1].date # result.ret[7].date
    /\ \E i \in Confirmed(bookings) : bookings[i].date = result.ret[1].date

\* the date or the start time of the request does not parse
Unparseable(args) == ~date_parses(args.date) \/ ~time_parses(args.start_time)

C15_FailedResult ==
    (LastCallWas("book") /\ Unparseable(result.args)) =>
       /\ result.ret.status = "failed"
       /\ result.ret.details.error = "Invalid date or time format"
       /\ result.ret.booking_id = NoId
       /\ result.ret.confirmation_code = NoCode

C15_StoreKept ==
    (BookStep /\ Unparseable(result'.args)) => (bookings' = bookings /\ file' = file)

\* C15: book with a date or start time that does not parse returns failed with
\* the invalid-date-or-time error, without booking id and confirmation code,
\* and leaves the store and the file as they were.
C15_InvalidInputFails == []C15_FailedResult /\ [][C15_StoreKept]_vars

\* a book with a start time that does not parse, on a store that holds a booking
C15_Witness ==
    /\ LastCallWas("book")
    /\ date_parses(result.args.date)
    /\ ~time_parses(result.args.start_time)
    /\ Confirmed(bookings) # {}

\* slotIsAvailable turns the request down in the store as it is before the call
Rejects(bks, args) ==
    ~_is_slot_available(bks, strptime_date(args.date), _parse_time(args.start_time),
                        duration_of(args.appointment_type))

C16_Rejected ==
    (BookStep /\ ~Unparseable(result'.args) /\ Rejects(bookings, result'.args)) =>
       /\ result'.ret.status = "failed"
       /\ result'.ret.details.error = "Time slot is not available"
       /\ bookings' = bookings
       /\ file' = file

\* C16: book for a slot that slotIsAvailable rejects in the current store
\* returns failed with the slot-not-available reason and leaves the store and
\* the file as they were.
C16_UnavailableFails == [][C16_Rejected]_vars

\* a book turned down because it overlaps a confirmed booking the store shows
C16_Witness ==
    /\ LastCallWas("book")
    /\ ~Unparseable(result.args)
    /\ result.ret.status = "failed"
    /\ RequestInOpenHours(result.args)
    /\ Rejects(bookings, result.args)

\* a cancel call has just run
CancelStep == result'.op = "cancel" /\ (result' # result \/ bookings' # bookings)

\* the positions of the store that hold a record with this id
WithId(bks, booking_id) == {i \in 1..Len(bks) : bks[i].booking_id = booking_id}

C17_Cancels ==
    CancelStep =>
       /\ result'.ret <=> WithId(bookings, result'.args.booking_id) # {}
       /\ result'.ret => \A i \in WithId(bookings, result'.args.booking_id) : bookings'[i].status = "cancelled"
       /\ ~result'.ret => (bookings' = bookings /\ file' = file)

\* C17: cancel returns true exactly when a booking with the id is in the store,
\* and every booking that had the id is cancelled afterwards; when there is
\* none it returns false and leaves the store and the file as they were.
C17_CancelExactly == [][C17_Cancels]_vars

\* C18: a book that returns confirmed returns an id that no booking added to
\* the store before it has.
C18_FreshId ==
    BookConfirmed =>
       \A i \in 1..(Len(bookings) - 1) : bookings[i].booking_id # result.ret.booking_id

\* the store has just been loaded, or the last call was a book that returned
\* confirmed or a cancel that returned true
JustSaved ==
    \/ result.op \in {"none", "restart"}
    \/ BookConfirmed
    \/ LastCallWas("cancel") /\ result.ret

C19_FileIsStore == JustSaved => file = bookings

C19_ReloadSame == (JustSaved /\ result'.op = "restart") => bookings' = bookings

\* C19: after the load and after every book that returned confirmed and every
\* cancel that returned true, the appointments of the file are the list in
\* memory, and the engine started again from the file has the same bookings.
C19_FileMirrorsStore == []C19_FileIsStore /\ [][C19_ReloadSame]_vars

\* a second booking was confirmed and saved: the file holds both records
C19_Witness ==
    /\ BookConfirmed
    /\ Len(bookings) = 2
    /\ bookings[1].status = "confirmed"
    /\ file = bookings

C20_Kept ==
    (BookStep /\ result'.ret.status = "failed" /\ result'.ret.details.error = WriteError)
       => bookings' = bookings

\* C20: when the write of the store fails during book, the store in memory
\* does not hold the new booking afterwards.
C20_FailedWriteNotCommitted == [][C20_Kept]_vars

\* the labels of the fields of the last call that are None or empty
EmptyLabels ==
    {l \in {"name", "email", "phone", "reason for visit"} :
        \/ l = "name" /\ (~result.args.patient_name.given \/ result.args.patient_name.text = "")
        \/ l = "email" /\ (~result.args.patient_email.given \/ result.args.patient_email.text = "")
        \/ l = "phone" /\ (~result.args.patient_phone.given \/ result.args.patient_phone.text = "")
        \/ l = "reason for visit" /\ (~result.args.reason.given \/ result.args.reason.text = "")}

\* C21: validate_booking_info returns is_valid=true exactly when name, email,
\* phone and reason are all non-empty, and missing_fields holds exactly the
\* labels of the empty or absent fields, each once.
C21_ValidIffComplete ==
    LastCallWas("validate_booking_info") =>
       /\ result.ret.is_valid <=> EmptyLabels = {}
       /\ {result.ret.missing_fields[k] : k \in 1..Len(result.ret.missing_fields)} = EmptyLabels
       /\ Len(result.ret.missing_fields) = Cardinality(EmptyLabels)
       /\ result.ret.is_valid <=> result.ret.missing_fields = <<>>

\* a call with a name, an empty email, no phone and a reason
C21_Witness ==
    /\ LastCallWas("validate_booking_info")
    /\ result.args.patient_email = Text("")
    /\ result.args.patient_phone = NoText
    /\ result.ret.missing_fields = <<"email", "phone">>

\* the last call asked for a working day that was not past
AnsweredOpenDay ==
    /\ Answered
    /\ day_name(AskedDate) \in DOMAIN working_hours
    /\ ~(AskedDate < result.now)

WorkStart == _time_to_minutes(_parse_time(working_hours[day_name(AskedDate)].start))

WorkEnd == _time_to_minutes(_parse_time(working_hours[day_name(AskedDate)].end))

AskedDuration == appointment_durations[result.args.appointment_type]

\* C22: for a working day that is not past, getAvailability returns one slot
\* for each start workStart + k*granularity with start + duration <= workEnd,
\* in ascending order, each ending at start + duration, the unavailable ones
\* included.
C22_FullGrid ==
    AnsweredOpenDay =>
       \A slots \in {result.ret.available_slots} :
          /\ Len(slots) = 0 <=> WorkStart + AskedDuration > WorkEnd
          /\ Len(slots) > 0 =>
                /\ SlotStart(slots[1]) = WorkStart
                /\ SlotStart(slots[Len(slots)]) + slot_duration_minutes + AskedDuration > WorkEnd
          /\ \A k \in 1..Len(slots) :
                /\ slots[k].start_time.hw = 2
                /\ SlotEnd(slots[k]) = SlotStart(slots[k]) + AskedDuration
                /\ SlotEnd(slots[k]) <= WorkEnd
                /\ k > 1 => SlotStart(slots[k]) = SlotStart(slots[k - 1]) + slot_duration_minutes

\* the grid of a follow-up day with the 10:00 slot taken by a booking
C22_Witness ==
    /\ AnsweredOpenDay
    /\ result.args.appointment_type = "followup"
    /\ Len(result.ret.available_slots) = 32
    /\ \E k \in AnswerSlotsAt(10, 0) : ~result.ret.available_slots[k].available

\* the start hours of a time of day: [6,12), [12,17), [17,22)
Band(time_preference) ==
    CASE time_preference = "morning" -> 6..11
      [] time_preference = "afternoon" -> 12..16
      [] time_preference = "evening" -> 17..21

\* the last call asked for the slots of a time of day
AskedTimeOfDay ==
    /\ LastCallWas("get_available_slots_only")
    /\ result.args.time_preference \in {"morning", "afternoon", "evening"}

\* C23: getAvailableSlotsOnly with preference morning, afternoon or evening
\* returns the available=true slots of the grid whose start hour is in
\* [6,12), [12,17) or [17,22), in grid order, and an empty list when none is.
C23_BandFilter ==
    AskedTimeOfDay =>
       result.ret = SelectSeq(get_availability(bookings, result.now, result.args.date,
                                               result.args.appointment_type).available_slots,
                              LAMBDA slot : slot.available
                                            /\ slot.start_time.hh \in Band(result.args.time_preference))

\* the morning of a day with a confirmed booking: some slots, the booked one not among them
C23_Witness ==
    /\ AskedTimeOfDay
    /\ result.args.time_preference = "morning"
    /\ result.ret # <<>>
    /\ \E i \in Confirmed(bookings) :
          /\ bookings[i].date = result.args.date
          /\ \A k \in 1..Len(result.ret) : result.ret[k].start_time # bookings[i].start_time

\* the available slots of a date that match the preference of the last call
MatchingSlots(date_str) ==
    get_available_slots_only(bookings, result.now, date_str, result.args.appointment_type,
                             result.args.time_preference)

\* the suggestion list holds this slot of this date
Suggested(date_str, slot) ==
    \E k \in 1..Len(result.ret) :
       result.ret[k].date = date_str /\ result.ret[k].start_time = slot.start_time

\* C24: in the result of suggestSlots with no preferred date, a slot of a later
\* date appears only if every available slot of each earlier date of the
\* result that matches the preference appears too.
C24_WholeDays ==
    SuggestedFreely =>
       \A k, l \in 1..Len(result.ret) :
          strptime_date(result.ret[k].date) < strptime_date(result.ret[l].date) =>
             \A slots \in {MatchingSlots(result.ret[k].date)} :
                \A j \in 1..Len(slots) : Suggested(result.ret[k].date, slots[j])

\* the days at offsets +1..+days_to_check from the day of the last call that
\* have at least one available slot matching its preference, as day numbers
QualifyingDays ==
    {result.local + i : i \in {j \in 1..result.args.days_to_check :
                                  MatchingSlots(strftime_date(result.local + j)) # <<>>}}

\* the smaller of two numbers
Min(a, b) == IF a < b THEN a ELSE b

\* C25: findNextAvailableDates returns, in increasing calendar order, the first
\* min(maxDates, n) of the n days among the offsets +1..+daysToCheck that have
\* an available matching slot: never more than maxDates entries (maxDates >= 0),
\* never a day without a matching slot, each entry with at most 5 slots and
\* with totalSlots equal to the full count of the day.
C25_FirstQualifyingDays ==
    (LastCallWas("find_next_available_dates") /\ result.args.max_dates >= 0) =>
       /\ Len(result.ret) = Min(result.args.max_dates, Cardinality(QualifyingDays))
       /\ \A k \in 1..Len(result.ret) :
             /\ strptime_date(result.ret[k].date) \in QualifyingDays
             /\ Cardinality({q \in QualifyingDays : q < strptime_date(result.ret[k].date)}) = k - 1
             /\ Len(result.ret[k].available_slots) <= SlotsPerDate
             /\ result.ret[k].total_slots = Len(MatchingSlots(result.ret[k].date))

\* one step of the store: no record leaves it, every record keeps its date,
\* start time and end time, a cancelled record stays cancelled, and the record
\* a confirmed book adds is a confirmed one with the id returned
LifecycleStep ==
    /\ Len(bookings') >= Len(bookings)
    /\ \A i \in 1..Len(bookings) :
          /\ bookings'[i].date = bookings[i].date
          /\ bookings'[i].start_time = bookings[i].start_time
          /\ bookings'[i].end_time = bookings[i].end_time
          /\ bookings[i].status = "cancelled" => bookings'[i].status = "cancelled"
    /\ (BookStep /\ result'.ret.status = "confirmed") =>
          /\ Len(bookings') = Len(bookings) + 1
          /\ bookings'[Len(bookings')].booking_id = result'.ret.booking_id
          /\ bookings'[Len(bookings')].status = "confirmed"

\* C26: the lifecycle of a booking is monotone: a booking that book creates
\* starts confirmed, no operation removes a booking from the store or changes
\* its date, start time or end time, and a cancelled booking stays cancelled
\* under every later book and cancel call.
C26_LifecycleMonotone == [][LifecycleStep]_vars

\* a booking was cancelled, and a later book call was confirmed beside it
C26_Witness ==
    /\ BookConfirmed
    /\ Len(bookings) = 3
    /\ bookings[1].status = "cancelled"
    /\ bookings[3].status = "confirmed"

\* a cancel leaves the number of records of the store and of the file as it
\* was, and changes no field of a record but the status
CancelFrame ==
    CancelStep =>
       /\ Len(bookings') = Len(bookings)
       /\ Len(file') = Len(file)
       /\ \A i \in 1..Len(bookings) :
             [bookings'[i] EXCEPT !.status = bookings[i].status] = bookings[i]

\* no two records of the store carry the same booking id
OneRecordEach ==
    \A i, j \in 1..Len(bookings) : bookings[i].booking_id = bookings[j].booking_id => i = j

\* C27: cancel changes only the status field of the matching record: the store
\* and the file hold as many records after a cancel as before it, so after any
\* sequence of book and cancel calls, cancelling one id twice included, each
\* booking id occurs in at most one record.
C27_CancelOnlyStatus == []OneRecordEach /\ [][CancelFrame]_vars

\* the request of a book call is listed with available=true by getAvailability
\* on the store the call found, it is not dated before today, and its start
\* is on the slot grid of its day
BookedWhatWasListed ==
    (BookStep /\ result'.ret.status = "confirmed") =>
       /\ ListsAvailable(get_availability(bookings, today, result'.args.date, result'.args.appointment_type),
                         result'.args.start_time)
       /\ ~IsPast(strptime_date(result'.args.date), today)
       /\ OnGrid(bookings'[Len(bookings')])

\* C28: book returns confirmed only for a date, type and start time that
\* getAvailability, on the same store, lists with available=true; it never
\* confirms a booking dated before today nor a start time off the slot grid.
C28_BookOnlyListed == [][BookedWhatWasListed]_vars

\* C29: the scan for dates and the availability check agree on today: even when
\* the date of the server's own clock differs from the date in the configured
\* timezone, findNextAvailableDates returns no entry dated on today of the
\* configured timezone, and the day after that today is the first day examined:
\* when it has a matching slot it is the first entry.
C29_SameToday ==
    (LastCallWas("find_next_available_dates") /\ result.args.max_dates >= 1) =>
       /\ \A k \in 1..Len(result.ret) : strptime_date(result.ret[k].date) # result.now
       /\ MatchingSlots(strftime_date(result.now + 1)) # <<>> =>
             /\ result.ret # <<>>
             /\ strptime_date(result.ret[1].date) = result.now + 1

\* the file has just been written: a book was confirmed or a cancel returned
\* true, in either engine
Written == file' # file

\* the record is in the list, whatever its status
Holds(bks, booking) ==
    \E j \in 1..Len(bks) :
       /\ bks[j].booking_id = booking.booking_id
       /\ bks[j].date = booking.date
       /\ bks[j].start_time = booking.start_time

\* a write loses no record of the file, and a book that is confirmed meets no
\* confirmed booking of the file
SharedFileStep ==
    Written =>
       /\ \A i \in 1..Len(file) : Holds(file', file[i])
       /\ result'.op \in {"book", "other_book"} => ~RequestOverlaps(file, result'.args)

\* C30: with two engines loaded from the same schedule file, a booking that one
\* of them confirmed and saved is still in the file after the next successful
\* book or cancel of the other, and a book of the other for an overlapping slot
\* fails.
C30_SharedFile == [][SharedFileStep]_vars

====
